---------------------------- MODULE Spec2Model ----------------------------
(***************************************************************************)
(* Model of src/quality-ladder.js: the quality ladder (stage classifier,   *)
(* strictness score, tier and budget selection, validator contract) and    *)
(* the topic-analysis recovery (generateConclusion, extractJson,           *)
(* normalizeConclusion).                                                    *)
(*                                                                         *)
(* Conventions.  A JavaScript string is a sequence of one-character        *)
(* strings, so that trim, slice, indexOf, regular-expression tests and     *)
(* JSON.parse are computed character by character.  undefined and "" are   *)
(* both falsy wherever the code reads a string through x || default, so     *)
(* a missing string field is the empty sequence.  Temperatures are in      *)
(* hundredths (0.55 is 55).                                                *)
(***************************************************************************)
EXTENDS Integers, Sequences, FiniteSets, TLC

VARIABLES
    segment, context, models,          \* inputs of the ladder calls
    stageKey, ladder, budget, upgrade, \* results of the ladder calls
    options, contract,                 \* buildValidatorContract
    opts, score,                       \* computeStrictness
    response, topic, outcome,          \* generateConclusion
    str, pos, depth, inString, escape, end, pc,  \* extractJson's scan
    returned                           \* what extractJson returned

ladderVars   == <<segment, context, models, stageKey, ladder, budget, upgrade>>
contractVars == <<options, contract>>
strictVars   == <<opts, score>>
conclVars    == <<response, topic, outcome>>
scanVars     == <<str, pos, depth, inString, escape, end, pc, returned>>
vars == <<ladderVars, contractVars, strictVars, conclVars, scanVars>>

\* A result that has not been computed.
None == [none |-> TRUE]

-----------------------------------------------------------------------------
(* Bounds of the model.                                                    *)
MaxBanlist == 21
MaxTurns == 14
MaxTextLen == 4
MaxScanLen == 5

-----------------------------------------------------------------------------
(* Strings.                                                                *)
S_chair           == <<"c","h","a","i","r">>
S_debater         == <<"d","e","b","a","t","e","r">>
S_judge           == <<"j","u","d","g","e">>
S_interjection    == <<"i","n","t","e","r","j","e","c","t","i","o","n">>
S_pro_statement   == <<"p","r","o","_","s","t","a","t","e","m","e","n","t">>
S_con_statement   == <<"c","o","n","_","s","t","a","t","e","m","e","n","t">>
S_pro_rebuttal    == <<"p","r","o","_","r","e","b","u","t","t","a","l">>
S_con_rebuttal    == <<"c","o","n","_","r","e","b","u","t","t","a","l">>
S_pro_summary     == <<"p","r","o","_","s","u","m","m","a","r","y">>
S_con_summary     == <<"c","o","n","_","s","u","m","m","a","r","y">>
S_judge_verdict   == <<"j","u","d","g","e","_","v","e","r","d","i","c","t">>
S_closingChair    == <<"c","l","o","s","i","n","g","C","h","a","i","r">>
S_judge_statement == <<"j","u","d","g","e","_","s","t","a","t","e","m","e","n","t">>
S_judge_summary   == <<"j","u","d","g","e","_","s","u","m","m","a","r","y">>
S_rebuttal        == <<"r","e","b","u","t","t","a","l">>
S_summary         == <<"s","u","m","m","a","r","y">>
S_statement       == <<"s","t","a","t","e","m","e","n","t">>

\* String.prototype.trim over the white space the model's texts contain.
WhiteSpace == {" ", "\n", "\t", "\r"}

RECURSIVE TrimStart(_)
TrimStart(s) ==
    IF s # <<>> /\ Head(s) \in WhiteSpace THEN TrimStart(Tail(s)) ELSE s

RECURSIVE TrimEnd(_)
TrimEnd(s) ==
    IF s # <<>> /\ s[Len(s)] \in WhiteSpace
    THEN TrimEnd(SubSeq(s, 1, Len(s) - 1)) ELSE s

Trim(s) == TrimEnd(TrimStart(s))

\* s.slice(0, n)
SliceTo(s, n) == SubSeq(s, 1, IF Len(s) < n THEN Len(s) ELSE n)

\* Whether pat occurs in s: a regular expression that is a plain word.
Contains(s, pat) ==
    \E k \in 1..(Len(s) - Len(pat) + 1) : SubSeq(s, k, k + Len(pat) - 1) = pat

Min(a, b) == IF a <= b THEN a ELSE b

-----------------------------------------------------------------------------
(* Configuration tables.                                                   *)
MODEL_TIER ==
    [cheap     |-> <<"o","p","e","n","a","i","/","g","p","t","-","4","o","-","m","i","n","i">>,
     mid       |-> <<"a","n","t","h","r","o","p","i","c","/","c","l","a","u","d","e","-","s","o","n","n","e","t","-","4">>,
     expensive |-> <<"a","n","t","h","r","o","p","i","c","/","c","l","a","u","d","e","-","o","p","u","s","-","4">>]

SEGMENT_MAX_TOKENS ==
    [transition |-> 120, definition_request |-> 120, chair_procedural |-> 120,
     interjection |-> 180, opening_statement |-> 260, rebuttal |-> 320,
     crossfire |-> 320, closing |-> 700, conclusion |-> 700,
     judge_verdict |-> 700]

QUALITY_LADDER_EXACT_SENTENCE_CAP == 220

\* SEGMENT_MAX_TOKENS[stage] ?? SEGMENT_MAX_TOKENS.rebuttal
stageMaxTokens(stage) ==
    IF stage \in DOMAIN SEGMENT_MAX_TOKENS
    THEN SEGMENT_MAX_TOKENS[stage] ELSE SEGMENT_MAX_TOKENS.rebuttal

-----------------------------------------------------------------------------
(* Inputs.  A segment is a record, or missing (the code reads it through   *)
(* segment?.).                                                             *)
RoleTypes == {<<>>, S_chair, S_debater, S_judge}

SubTypes ==
    {<<>>, S_interjection, S_pro_statement, S_con_statement, S_pro_rebuttal,
     S_con_rebuttal, S_pro_summary, S_con_summary, S_judge_verdict,
     S_closingChair, S_judge_statement, S_judge_summary}

NoSegment == [present |-> FALSE, roleType |-> <<>>, roleSubType |-> <<>>]

Segments ==
    {NoSegment} \cup
    [present : {TRUE}, roleType : RoleTypes, roleSubType : SubTypes]

\* context.banlist_size: a number, or something that is not a number.
NotANumber == [isNumber |-> FALSE, n |-> 0]
BanlistSizes ==
    {NotANumber} \cup [isNumber : {TRUE}, n : {0, 19, 20, MaxBanlist}]

\* context.recentTurns: an array of some length, or absent.
NoTurns == [isArray |-> FALSE, length |-> 0]
RecentTurns ==
    {NoTurns} \cup [isArray : {TRUE}, length : {0, 7, 12, 13, MaxTurns}]

\* context.previousOpponentText: absent is "".
OpponentTexts == {<<>>, <<" ">>, <<" ", "a", " ">>}

LadderContexts ==
    [streamMode : BOOLEAN, detailMode : BOOLEAN, banlist_size : BanlistSizes,
     recentTurns : RecentTurns, previousOpponentText : {<<>>}]

NoModels == [cheap |-> <<>>, mid |-> <<>>, expensive |-> <<>>]
ModelOverrides ==
    {NoModels,
     [cheap |-> <<" ", "c">>, mid |-> <<"m", " ">>, expensive |-> <<"x">>],
     [cheap |-> <<"c">>, mid |-> <<"x">>, expensive |-> <<"x">>]}

-----------------------------------------------------------------------------
(* The quality ladder.                                                     *)

getStageKey_interjectionFirst(seg) ==
    LET roleType == IF seg.roleType # <<>> THEN seg.roleType ELSE S_debater
        sub == seg.roleSubType
    IN  IF sub = S_interjection THEN "interjection"
        ELSE IF roleType = S_chair THEN "chair_procedural"
        ELSE IF sub = S_pro_statement \/ sub = S_con_statement THEN "opening_statement"
        ELSE IF sub = S_pro_rebuttal \/ sub = S_con_rebuttal THEN "rebuttal"
        ELSE IF sub = S_pro_summary \/ sub = S_con_summary THEN "closing"
        ELSE "rebuttal"

getStageKey(seg) ==
    LET roleType == IF seg.roleType # <<>> THEN seg.roleType ELSE S_debater
        sub == seg.roleSubType
    IN  IF roleType = S_chair THEN "chair_procedural"
        ELSE IF sub = S_interjection THEN "interjection"
        ELSE IF sub = S_pro_statement \/ sub = S_con_statement THEN "opening_statement"
        ELSE IF sub = S_pro_rebuttal \/ sub = S_con_rebuttal THEN "rebuttal"
        ELSE IF sub = S_pro_summary \/ sub = S_con_summary THEN "closing"
        ELSE "rebuttal"

getStageKeyForSegment(seg) == getStageKey(seg)

computeStrictness_heavyFinal(o) ==
    LET s1 == IF o.exact_sentence_count THEN 3 ELSE 0
        s2 == s1 + (IF o.must_hook THEN 2 ELSE 0)
        s3 == s2 + (IF o.banlist_size >= 20 THEN 2 ELSE 0)
        s4 == s3 + (IF o.context_length = "long" THEN 2 ELSE 0)
        s5 == s4 + (IF o.quality_mode = "final" THEN 2 ELSE 0)
    IN  s5

\* The segment and context parameters are not read.  opts.banlist_size || 0
\* is the number itself, or 0.
computeStrictness(o) ==
    LET s1 == IF o.exact_sentence_count THEN 3 ELSE 0
        s2 == s1 + (IF o.must_hook THEN 2 ELSE 0)
        s3 == s2 + (IF o.banlist_size >= 20 THEN 2 ELSE 0)
        s4 == s3 + (IF o.context_length = "long" THEN 2 ELSE 0)
        s5 == s4 + (IF o.quality_mode = "final" THEN 1 ELSE 0)
    IN  Min(10, s5)

qualityMode(ctx) ==
    IF ctx.streamMode THEN "show" ELSE IF ctx.detailMode THEN "final" ELSE "draft"

exactSentenceCount(sub) == sub = S_interjection \/ sub = S_closingChair

\* /rebuttal|summary|statement/.test(sub)
mustHookPattern(sub) ==
    Contains(sub, S_rebuttal) \/ Contains(sub, S_summary) \/ Contains(sub, S_statement)

banlistSize(ctx) ==
    IF ctx.banlist_size.isNumber THEN ctx.banlist_size.n ELSE 0

contextLength(ctx) ==
    LET contextLen == IF ctx.recentTurns.isArray THEN ctx.recentTurns.length ELSE 0
    IN  IF contextLen > 12 THEN "long"
        ELSE IF contextLen > 6 THEN "medium" ELSE "short"

ladderOpts(seg, ctx) ==
    [exact_sentence_count |-> exactSentenceCount(seg.roleSubType),
     must_hook |-> mustHookPattern(seg.roleSubType),
     banlist_size |-> banlistSize(ctx),
     context_length |-> contextLength(ctx),
     quality_mode |-> qualityMode(ctx)]

selectTier_bandsFirst(sub, stage, strictness, cheap, mid, expensive) ==
    IF strictness >= 8 THEN expensive
    ELSE IF strictness >= 5 /\ strictness <= 7 THEN mid
    ELSE IF sub = S_judge_verdict \/ stage = "closing" \/ sub = S_closingChair
        THEN expensive
    ELSE IF stage \in {"transition", "definition_request", "chair_procedural"}
        THEN cheap
    ELSE mid

selectTier(sub, stage, strictness, cheap, mid, expensive) ==
    IF sub = S_judge_verdict \/ stage = "closing" \/ sub = S_closingChair
        THEN expensive
    ELSE IF strictness >= 8 THEN expensive
    ELSE IF strictness >= 5 /\ strictness <= 7 THEN mid
    ELSE IF strictness <= 4
        THEN IF stage \in {"transition", "definition_request", "chair_procedural"}
             THEN cheap ELSE mid
    ELSE mid

tierId(ms, tier) ==
    Trim(IF ms[tier] # <<>> THEN ms[tier] ELSE MODEL_TIER[tier])

selectModelAndBudget(seg, ctx, ms) ==
    LET cheap == tierId(ms, "cheap")
        mid == tierId(ms, "mid")
        expensive == tierId(ms, "expensive")
        stage == getStageKey(seg)
        sub == seg.roleSubType
        o == ladderOpts(seg, ctx)
        strictness == computeStrictness(o)
        model == selectTier(sub, stage, strictness, cheap, mid, expensive)
        base == stageMaxTokens(stage)
        max_tokens == IF o.exact_sentence_count
                      THEN Min(base, QUALITY_LADDER_EXACT_SENTENCE_CAP) ELSE base
        temperature == IF o.exact_sentence_count \/ o.banlist_size >= 20 THEN 40
                       ELSE IF model = expensive THEN 50
                       ELSE IF model = mid THEN 55
                       ELSE 60
    IN  [model |-> model, max_tokens |-> max_tokens, temperature |-> temperature,
         strictness |-> strictness, stage |-> stage]

\* quality_mode is a parameter the body never reads.
segmentBudget(stage, strictness, quality_mode, o) ==
    LET base == stageMaxTokens(stage)
        max_tokens == IF o.exact_sentence_count
                      THEN Min(base, QUALITY_LADDER_EXACT_SENTENCE_CAP) ELSE base
        temperature == IF o.exact_sentence_count \/ o.banlist_size >= 20 THEN 40
                       ELSE IF strictness >= 8 THEN 50
                       ELSE 55
    IN  [max_tokens |-> max_tokens, temperature |-> temperature]

shouldUpgradeImmediately_noVerdict(seg, ctx, strictness) ==
    LET sub == seg.roleSubType
        stage == getStageKey(seg)
    IN  \/ stage = "closing" \/ sub = S_closingChair
        \/ strictness >= 8

shouldUpgradeImmediately(seg, ctx, strictness) ==
    LET sub == seg.roleSubType
        stage == getStageKey(seg)
    IN  \/ stage = "closing" \/ sub = S_closingChair \/ sub = S_judge_verdict
        \/ strictness >= 8

-----------------------------------------------------------------------------
(* The validator contract.  An optional value (a field that may be         *)
(* undefined or null) is a record: set tells whether it is there.          *)
Unset == [set |-> FALSE, n |-> 0]
Some(n) == [set |-> TRUE, n |-> n]
UnsetFlag == [set |-> FALSE, n |-> FALSE]

\* a ?? b
Coalesce(a, b) == IF a.set THEN a ELSE b

OPPONENT_LINE_MAX == 600

ContractOptions ==
    [exactSentences : {Unset, Some(0), Some(1), Some(3)},
     minSentences : {Unset, Some(2)},
     maxSentences : {Unset, Some(4)},
     maxQuestions : {Unset, Some(0)},
     mustHook : {UnsetFlag, Some(TRUE), Some(FALSE)},
     forbiddenPhrases : {<<>>, << <<"u","m">> >>}]

ContractContexts ==
    [streamMode : {FALSE}, detailMode : {FALSE}, banlist_size : {NotANumber},
     recentTurns : {NoTurns}, previousOpponentText : OpponentTexts]

buildValidatorContract_keepsMin(seg, ctx, opt) ==
    LET roleType == IF seg.roleType # <<>> THEN seg.roleType ELSE S_debater
        sub == seg.roleSubType
        exactSentences == IF sub = S_interjection \/ sub = S_closingChair
                          THEN Some(1) ELSE opt.exactSentences
        minSentences == Coalesce(opt.minSentences, Some(1))
        maxSentences == Coalesce(opt.maxSentences,
                                 IF roleType = S_chair THEN Some(2) ELSE Some(6))
        opponentLine == SliceTo(Trim(ctx.previousOpponentText), OPPONENT_LINE_MAX)
    IN  [exactSentences |-> exactSentences,
         minSentences |-> minSentences,
         maxSentences |-> IF ~exactSentences.set THEN maxSentences ELSE exactSentences,
         maxQuestions |-> Coalesce(opt.maxQuestions, Some(1)).n,
         mustHook |-> Coalesce(opt.mustHook, Some(mustHookPattern(sub))).n
                      /\ Len(opponentLine) > 0,
         opponentLine |-> [set |-> opponentLine # <<>>, s |-> opponentLine],
         forbiddenPhrases |-> opt.forbiddenPhrases,
         bannedStems |-> <<>>, bannedWordsSpeaker |-> <<>>,
         englishOnly |-> TRUE, noStageDirections |-> TRUE]

\* The options' bannedStems and bannedWordsSpeaker are left out by the
\* caller: both default to [].
buildValidatorContract(seg, ctx, opt) ==
    LET roleType == IF seg.roleType # <<>> THEN seg.roleType ELSE S_debater
        sub == seg.roleSubType
        exactSentences == IF sub = S_interjection \/ sub = S_closingChair
                          THEN Some(1) ELSE opt.exactSentences
        minSentences == Coalesce(opt.minSentences,
                                 IF roleType = S_chair THEN Some(1) ELSE Some(1))
        maxSentences == Coalesce(opt.maxSentences,
                                 IF roleType = S_chair THEN Some(2) ELSE Some(6))
        opponentLine == SliceTo(Trim(ctx.previousOpponentText), OPPONENT_LINE_MAX)
    IN  [exactSentences |-> exactSentences,
         minSentences |-> IF ~exactSentences.set THEN minSentences ELSE Unset,
         maxSentences |-> IF ~exactSentences.set THEN maxSentences ELSE exactSentences,
         maxQuestions |-> Coalesce(opt.maxQuestions, Some(1)).n,
         mustHook |-> Coalesce(opt.mustHook, Some(mustHookPattern(sub))).n
                      /\ Len(opponentLine) > 0,
         opponentLine |-> [set |-> opponentLine # <<>>, s |-> opponentLine],
         forbiddenPhrases |-> opt.forbiddenPhrases,
         bannedStems |-> <<>>, bannedWordsSpeaker |-> <<>>,
         englishOnly |-> TRUE, noStageDirections |-> TRUE]

-----------------------------------------------------------------------------
(* JSON.parse.  A parsed value is a record with its type t and payload v:  *)
(* an object's v is the sequence of its members [k, v] in text order (a    *)
(* repeated key's last member is the one a property read sees), an         *)
(* array's v the sequence of its elements, a string's v its characters, a  *)
(* number's v its lexeme.                                                  *)
Undefined == [t |-> "undefined", v |-> 0]
JsonNull == [t |-> "null", v |-> 0]
JsonStr(cs) == [t |-> "str", v |-> cs]
EmptyObject == [t |-> "obj", v |-> <<>>]

ParseFail == [ok |-> FALSE, val |-> Undefined, next |-> 0]
ParseOk(val, next) == [ok |-> TRUE, val |-> val, next |-> next]

JsonWs == {" ", "\t", "\n", "\r"}
Digits == {"0", "1", "2", "3", "4", "5", "6", "7", "8", "9"}
HexDigits == Digits \cup {"a", "b", "c", "d", "e", "f", "A", "B", "C", "D", "E", "F"}

\* The character at 1-based position i, or "" past either end.
At(s, i) == IF i >= 1 /\ i <= Len(s) THEN s[i] ELSE ""

RECURSIVE SkipWs(_, _)
SkipWs(s, i) == IF At(s, i) \in JsonWs THEN SkipWs(s, i + 1) ELSE i

RECURSIVE SkipDigits(_, _)
SkipDigits(s, i) == IF At(s, i) \in Digits THEN SkipDigits(s, i + 1) ELSE i

\* The character a one-letter escape stands for.
Unescape(e) ==
    CASE e = "n" -> "\n" [] e = "t" -> "\t" [] e = "r" -> "\r"
      [] e = "b" -> "\\b" [] e = "f" -> "\f" [] OTHER -> e

\* The body of a string literal from position k on; acc is what was read.
RECURSIVE ParseStringBody(_, _, _)
ParseStringBody(s, k, acc) ==
    LET c == At(s, k)
        e == At(s, k + 1)
    IN  IF c = "" THEN ParseFail
        ELSE IF c = "\"" THEN ParseOk(JsonStr(acc), k + 1)
        ELSE IF c = "\\" THEN
            IF e \in {"\"", "\\", "/", "b", "f", "n", "r", "t"}
                THEN ParseStringBody(s, k + 2, Append(acc, Unescape(e)))
            ELSE IF e = "u" /\ \A j \in (k + 2)..(k + 5) : At(s, j) \in HexDigits
                THEN ParseStringBody(s, k + 6,
                        Append(acc, "\\u" \o s[k+2] \o s[k+3] \o s[k+4] \o s[k+5]))
            ELSE ParseFail
        ELSE IF c \in {"\n", "\t", "\r", "\f"} THEN ParseFail
        ELSE ParseStringBody(s, k + 1, Append(acc, c))

\* The position after the number that starts at i, or 0 when there is none.
ParseNumberEnd(s, i) ==
    LET Exponent(i2, j) ==
            IF i2 = 0 THEN 0
            ELSE IF At(s, i2) \notin {"e", "E"} THEN i2
            ELSE IF At(s, j) \in Digits THEN SkipDigits(s, j) ELSE 0
        Fraction(i1) ==
            IF i1 = 0 THEN 0
            ELSE IF At(s, i1) # "." THEN i1
            ELSE IF At(s, i1 + 1) \in Digits THEN SkipDigits(s, i1 + 1) ELSE 0
        Integer(i0) ==
            IF At(s, i0) = "0" THEN i0 + 1
            ELSE IF At(s, i0) \in Digits THEN SkipDigits(s, i0) ELSE 0
        Signed(i2) ==
            Exponent(i2, IF At(s, i2 + 1) \in {"+", "-"} THEN i2 + 2 ELSE i2 + 1)
        Mantissa(i0) == Signed(Fraction(Integer(i0)))
    IN  Mantissa(IF At(s, i) = "-" THEN i + 1 ELSE i)

ParseLiteral(s, i, word, val) ==
    IF SubSeq(s, i, Min(Len(s), i + Len(word) - 1)) = word
    THEN ParseOk(val, i + Len(word)) ELSE ParseFail

RECURSIVE ParseValue(_, _)
RECURSIVE ParseElements(_, _, _)
RECURSIVE ParseMembers(_, _, _)

\* The elements of an array from position i on, up to its "]".
ParseElements(s, i, acc) ==
    LET After(r, k) ==
            IF At(s, k) = ","
                THEN ParseElements(s, SkipWs(s, k + 1), Append(acc, r.val))
            ELSE IF At(s, k) = "]"
                THEN ParseOk([t |-> "arr", v |-> Append(acc, r.val)], k + 1)
            ELSE ParseFail
        Element(r) == IF ~r.ok THEN ParseFail ELSE After(r, SkipWs(s, r.next))
    IN  Element(ParseValue(s, i))

\* The members of an object from position i on, up to its "}".
ParseMembers(s, i, acc) ==
    LET After(member, k) ==
            IF At(s, k) = ","
                THEN ParseMembers(s, SkipWs(s, k + 1), Append(acc, member))
            ELSE IF At(s, k) = "}"
                THEN ParseOk([t |-> "obj", v |-> Append(acc, member)], k + 1)
            ELSE ParseFail
        Member(key, r) ==
            IF ~r.ok THEN ParseFail
            ELSE After([k |-> key.val.v, v |-> r.val], SkipWs(s, r.next))
        Colon(key, c) ==
            IF key.ok /\ At(s, c) = ":"
            THEN Member(key, ParseValue(s, SkipWs(s, c + 1))) ELSE ParseFail
        Key(key) == IF ~key.ok THEN ParseFail ELSE Colon(key, SkipWs(s, key.next))
    IN  IF At(s, i) = "\"" THEN Key(ParseStringBody(s, i + 1, <<>>)) ELSE ParseFail

\* The value that starts at position i, which is not white space.
ParseValue(s, i) ==
    LET c == At(s, i)
        Opened(j) ==
            IF c = "{" THEN
                IF At(s, j) = "}" THEN ParseOk(EmptyObject, j + 1)
                ELSE ParseMembers(s, j, <<>>)
            ELSE
                IF At(s, j) = "]" THEN ParseOk([t |-> "arr", v |-> <<>>], j + 1)
                ELSE ParseElements(s, j, <<>>)
        Number(n) ==
            IF n = 0 THEN ParseFail
            ELSE ParseOk([t |-> "num", v |-> SubSeq(s, i, n - 1)], n)
    IN  IF c \in {"{", "["} THEN Opened(SkipWs(s, i + 1))
        ELSE IF c = "\"" THEN ParseStringBody(s, i + 1, <<>>)
        ELSE IF c = "-" \/ c \in Digits THEN Number(ParseNumberEnd(s, i))
        ELSE IF c = "t" THEN
            ParseLiteral(s, i, <<"t","r","u","e">>, [t |-> "bool", v |-> TRUE])
        ELSE IF c = "f" THEN
            ParseLiteral(s, i, <<"f","a","l","s","e">>, [t |-> "bool", v |-> FALSE])
        ELSE IF c = "n" THEN
            ParseLiteral(s, i, <<"n","u","l","l">>, JsonNull)
        ELSE ParseFail

\* JSON.parse(s): [ok, val]; ok is FALSE where JSON.parse throws.
JSONParse(s) ==
    LET Whole(r) ==
            IF r.ok /\ SkipWs(s, r.next) > Len(s)
            THEN [ok |-> TRUE, val |-> r.val]
            ELSE [ok |-> FALSE, val |-> Undefined]
    IN  Whole(ParseValue(s, SkipWs(s, 1)))

\* try { return JSON.parse(...) } catch (_) { return null }
ParsedOrNull(r) == IF r.ok THEN r.val ELSE JsonNull

-----------------------------------------------------------------------------
(* Topic analysis: cleaning the service's text, extractJson and its scan,  *)
(* normalizeConclusion, generateConclusion.                                *)

\* s.indexOf(c) and s.lastIndexOf(c): 0-based, -1 when c does not occur.
IndexOf(s, c) ==
    IF \E k \in 1..Len(s) : s[k] = c
    THEN (CHOOSE k \in 1..Len(s) : s[k] = c /\ \A j \in 1..(k - 1) : s[j] # c) - 1
    ELSE -1

LastIndexOf(s, c) ==
    IF \E k \in 1..Len(s) : s[k] = c
    THEN (CHOOSE k \in 1..Len(s) : s[k] = c /\ \A j \in (k + 1)..Len(s) : s[j] # c) - 1
    ELSE -1

\* The backquote, which a string of this language cannot hold, is the
\* character "BQ".
Backquote == "BQ"
Fence == <<Backquote, Backquote, Backquote>>

RECURSIVE SkipSpace(_, _)
SkipSpace(s, i) == IF At(s, i) \in WhiteSpace THEN SkipSpace(s, i + 1) ELSE i

\* raw.replace(/^FENCE(?:json|JSON)?\s*\n?/i, ""), FENCE three backquotes
StripLeadingFence(s) ==
    LET tagged == /\ At(s, 4) \in {"j", "J"} /\ At(s, 5) \in {"s", "S"}
                  /\ At(s, 6) \in {"o", "O"} /\ At(s, 7) \in {"n", "N"}
    IN  IF SubSeq(s, 1, Min(3, Len(s))) = Fence
        THEN SubSeq(s, SkipSpace(s, IF tagged THEN 8 ELSE 4), Len(s)) ELSE s

\* raw.replace(/\n?FENCE\s*$/g, ""): the fence that only white space follows,
\* with the line break before it.
StripTrailingFence(s) ==
    LET Stripped(e) ==
            IF e >= 3 /\ SubSeq(s, e - 2, e) = Fence
            THEN SubSeq(s, 1, (IF e >= 4 /\ s[e - 3] = "\n" THEN e - 3 ELSE e - 2) - 1)
            ELSE s
    IN  Stripped(Len(TrimEnd(s)))

\* The text generateConclusion hands to extractJson.
cleanRaw(content) ==
    LET OrEmptyObject(r0) == IF r0 = <<>> THEN <<"{", "}">> ELSE r0
        Unfenced(r1) == Trim(StripTrailingFence(StripLeadingFence(r1)))
        FromFirstBrace(r2, beforeFirstBrace) ==
            IF beforeFirstBrace > 0
            THEN SubSeq(r2, beforeFirstBrace + 1, Len(r2)) ELSE r2
        ToLastBrace(r3, lastBrace) ==
            IF lastBrace # -1 /\ lastBrace < Len(r3) - 1
            THEN SubSeq(r3, 1, lastBrace + 1) ELSE r3
        Sliced(r3) == ToLastBrace(r3, LastIndexOf(r3, "}"))
        Cut(r2) == Sliced(FromFirstBrace(r2, IndexOf(r2, "{")))
    IN  Cut(Unfenced(OrEmptyObject(Trim(content))))

\* The scan's state before the character at index start (0-based).
ScanStart(start) ==
    [i |-> start, depth |-> 0, inString |-> "", escape |-> FALSE, end |-> -1]

ScanChar_quoteBlind(sc, c) ==
    IF sc.escape THEN [sc EXCEPT !.escape = FALSE, !.i = sc.i + 1]
    ELSE IF sc.inString # "" THEN
        IF c = "\\" THEN [sc EXCEPT !.escape = TRUE, !.i = sc.i + 1]
        ELSE IF c \in {"\"", "'"} THEN [sc EXCEPT !.inString = "", !.i = sc.i + 1]
        ELSE [sc EXCEPT !.i = sc.i + 1]
    ELSE IF c = "\"" \/ c = "'" THEN [sc EXCEPT !.inString = c, !.i = sc.i + 1]
    ELSE IF c = "{" THEN [sc EXCEPT !.depth = sc.depth + 1, !.i = sc.i + 1]
    ELSE IF c = "}" THEN
        IF sc.depth - 1 = 0
        THEN [sc EXCEPT !.depth = sc.depth - 1, !.end = sc.i]
        ELSE [sc EXCEPT !.depth = sc.depth - 1, !.i = sc.i + 1]
    ELSE [sc EXCEPT !.i = sc.i + 1]

\* One turn of extractJson's loop on the character c at index sc.i.  inString
\* is "" for false, or the quote that opened the string.  The } that takes
\* the depth to 0 sets end and leaves the loop with i on it.
ScanChar(sc, c) ==
    IF sc.escape THEN [sc EXCEPT !.escape = FALSE, !.i = sc.i + 1]
    ELSE IF sc.inString # "" THEN
        IF c = "\\" THEN [sc EXCEPT !.escape = TRUE, !.i = sc.i + 1]
        ELSE IF c = sc.inString THEN [sc EXCEPT !.inString = "", !.i = sc.i + 1]
        ELSE [sc EXCEPT !.i = sc.i + 1]
    ELSE IF c = "\"" \/ c = "'" THEN [sc EXCEPT !.inString = c, !.i = sc.i + 1]
    ELSE IF c = "{" THEN [sc EXCEPT !.depth = sc.depth + 1, !.i = sc.i + 1]
    ELSE IF c = "}" THEN
        IF sc.depth - 1 = 0
        THEN [sc EXCEPT !.depth = sc.depth - 1, !.end = sc.i]
        ELSE [sc EXCEPT !.depth = sc.depth - 1, !.i = sc.i + 1]
    ELSE [sc EXCEPT !.i = sc.i + 1]

\* Whether the loop is over: the break was taken, or i reached s.length.
ScanOver(s, sc) == sc.end # -1 \/ sc.i >= Len(s)

\* One turn of the loop, if it is not over.
ScanTurn(s, sc) == IF ScanOver(s, sc) THEN sc ELSE ScanChar(sc, s[sc.i + 1])

\* Eight turns of the loop.
ScanTurns(s, sc) ==
    LET a1 == ScanTurn(s, sc)
        a2 == ScanTurn(s, a1)
        a3 == ScanTurn(s, a2)
        a4 == ScanTurn(s, a3)
        a5 == ScanTurn(s, a4)
        a6 == ScanTurn(s, a5)
        a7 == ScanTurn(s, a6)
    IN  ScanTurn(s, a7)

\* The loop run to its end, eight turns at a time to keep the recursion
\* shallow: the index of the closing brace, or -1.
RECURSIVE ScanFrom(_, _)
ScanFrom(s, sc) ==
    IF ScanOver(s, sc) THEN sc.end ELSE ScanFrom(s, ScanTurns(s, sc))

\* extractJson(str): the parsed value, or JsonNull for null (which is also
\* what parsing the text "null" gives).
extractJson(text) ==
    LET Slice(s, start, e) ==
            IF e = -1 THEN JsonNull
            ELSE ParsedOrNull(JSONParse(SubSeq(s, start + 1, e + 1)))
        Scan(s, start) ==
            IF start = -1 THEN JsonNull
            ELSE Slice(s, start, ScanFrom(s, ScanStart(start)))
        Direct(s, direct) ==
            IF direct.ok THEN direct.val ELSE Scan(s, IndexOf(s, "{"))
        Trimmed(s) == Direct(s, JSONParse(s))
    IN  Trimmed(Trim(text))

\* raw.replace(/,(\s*[}\]])/g, "$1"): every comma that only white space
\* separates from a closing brace or bracket is dropped.
fixTrailingComma(s) ==
    LET kept == {k \in 1..Len(s) :
                    ~(s[k] = "," /\ At(s, SkipSpace(s, k + 1)) \in {"}", "]"})}
        nth(j) == CHOOSE k \in kept : Cardinality({x \in kept : x < k}) = j - 1
    IN  [j \in 1..Cardinality(kept) |-> s[nth(j)]]

SECTION_IDS ==
    << <<"d","e","f","i","n","i","t","i","o","n","s">>,
       <<"a","r","g","u","m","e","n","t","_","m","a","p">>,
       <<"c","o","r","e","_","c","l","a","s","h","e","s">>,
       <<"a","s","s","u","m","p","t","i","o","n","s">>,
       <<"s","t","e","e","l","m","a","n">>,
       <<"n","o","v","e","l","_","a","n","g","l","e","s">>,
       <<"e","m","p","i","r","i","c","a","l">>,
       <<"v","e","r","d","i","c","t">>,
       <<"l","i","t","e","r","a","t","u","r","e">>,
       <<"m","e","d","i","a">> >>

K_sections == <<"s","e","c","t","i","o","n","s">>
K_id       == <<"i","d">>
K_heading  == <<"h","e","a","d","i","n","g">>
K_items    == <<"i","t","e","m","s">>
K_title    == <<"t","i","t","l","e">>
K_topic    == <<"t","o","p","i","c">>
K_meta     == <<"m","e","t","a">>
S_TopicAnalysis == <<"T","o","p","i","c"," ","A","n","a","l","y","s","i","s">>

LowerCase == <<"a","b","c","d","e","f","g","h","i","j","k","l","m",
               "n","o","p","q","r","s","t","u","v","w","x","y","z">>
UpperCase == <<"A","B","C","D","E","F","G","H","I","J","K","L","M",
               "N","O","P","Q","R","S","T","U","V","W","X","Y","Z">>

\* c.toUpperCase()
ToUpperCase(c) ==
    IF \E k \in 1..26 : LowerCase[k] = c
    THEN UpperCase[CHOOSE k \in 1..26 : LowerCase[k] = c] ELSE c

\* \w
IsWordChar(c) ==
    \/ \E k \in 1..26 : LowerCase[k] = c \/ UpperCase[k] = c
    \/ c \in Digits \/ c = "_"

\* id.replace(/_/g, " ").replace(/\b\w/g, (c) => c.toUpperCase())
humanize(id) ==
    LET spaced == [k \in 1..Len(id) |-> IF id[k] = "_" THEN " " ELSE id[k]]
    IN  [k \in 1..Len(id) |->
            IF IsWordChar(spaced[k]) /\ (k = 1 \/ ~IsWordChar(spaced[k - 1]))
            THEN ToUpperCase(spaced[k]) ELSE spaced[k]]

\* val[key] for a parsed value: the last member of that key of an object,
\* undefined for anything else (none of the keys read is a property of an
\* array, a string, a number or a boolean).
Prop(val, key) ==
    LET hits == IF val.t = "obj"
                THEN {k \in 1..Len(val.v) : val.v[k].k = key} ELSE {}
    IN  IF hits = {} THEN Undefined
        ELSE val.v[CHOOSE k \in hits : \A j \in hits : j <= k].v

\* Whether a number's lexeme is 0: no digit of its mantissa is other than 0.
IsZeroLexeme(lex) ==
    LET stop == IF \E k \in 1..Len(lex) : lex[k] \in {"e", "E"}
                THEN CHOOSE k \in 1..Len(lex) : lex[k] \in {"e", "E"}
                ELSE Len(lex) + 1
    IN  \A k \in 1..(stop - 1) : lex[k] \in {"0", "-", "."}

\* Whether a value is truthy in a || b.
Truthy(val) ==
    CASE val.t \in {"undefined", "null"} -> FALSE
      [] val.t = "bool" -> val.v
      [] val.t = "str" -> val.v # <<>>
      [] val.t = "num" -> ~IsZeroLexeme(val.v)
      [] OTHER -> TRUE

\* The sections array of a parsed value: json.sections if it is an array,
\* else [].
sectionsOf(json) ==
    IF Prop(json, K_sections).t = "arr" THEN Prop(json, K_sections).v ELSE <<>>

\* byId.get(id): the last section whose id is the string id, or undefined.
byId(sections, id) ==
    LET hits == {k \in 1..Len(sections) : Prop(sections[k], K_id) = JsonStr(id)}
    IN  IF hits = {} THEN Undefined
        ELSE sections[CHOOSE k \in hits : \A j \in hits : j <= k]

outSection(sections, id) ==
    LET sec == byId(sections, id)
    IN  [id |-> id,
         heading |-> IF Truthy(Prop(sec, K_heading))
                     THEN Prop(sec, K_heading) ELSE JsonStr(humanize(id)),
         items |-> IF Prop(sec, K_items).t = "arr" THEN Prop(sec, K_items).v ELSE <<>>]

normalizeConclusion_asParsed(json, topicArg) ==
    LET sections == sectionsOf(json)
    IN  IF \E k \in 1..Len(sections) : sections[k].t = "null"
        THEN [threw |-> TRUE, value |-> Undefined]
        ELSE [threw |-> FALSE,
              value |->
                [title |-> IF Prop(json, K_title).t = "str"
                           THEN Prop(json, K_title).v ELSE S_TopicAnalysis,
                 topic |-> IF Prop(json, K_topic).t = "str"
                           THEN Prop(json, K_topic).v ELSE topicArg,
                 meta |-> IF Truthy(Prop(json, K_meta))
                          THEN Prop(json, K_meta) ELSE EmptyObject,
                 sections |-> [k \in 1..Len(sections) |->
                     [id |-> IF Prop(sections[k], K_id).t = "str"
                             THEN Prop(sections[k], K_id).v ELSE <<>>,
                      heading |-> Prop(sections[k], K_heading),
                      items |-> IF Prop(sections[k], K_items).t = "arr"
                                THEN Prop(sections[k], K_items).v ELSE <<>>]]]]

normalizeConclusion_titleFromTopic(json, topicArg) ==
    LET sections == sectionsOf(json)
    IN  IF \E k \in 1..Len(sections) : sections[k].t = "null"
        THEN [threw |-> TRUE, value |-> Undefined]
        ELSE [threw |-> FALSE,
              value |->
                [title |-> IF Prop(json, K_title).t = "str"
                           THEN Prop(json, K_title).v ELSE topicArg,
                 topic |-> IF Prop(json, K_topic).t = "str"
                           THEN Prop(json, K_topic).v ELSE topicArg,
                 meta |-> IF Truthy(Prop(json, K_meta))
                          THEN Prop(json, K_meta) ELSE EmptyObject,
                 sections |-> [k \in 1..Len(SECTION_IDS) |->
                                  outSection(sections, SECTION_IDS[k])]]]

\* normalizeConclusion(json, topic).  Building byId reads s.id of every
\* section: a null among them throws a TypeError.
normalizeConclusion(json, topicArg) ==
    LET sections == sectionsOf(json)
    IN  IF \E k \in 1..Len(sections) : sections[k].t = "null"
        THEN [threw |-> TRUE, value |-> Undefined]
        ELSE [threw |-> FALSE,
              value |->
                [title |-> IF Prop(json, K_title).t = "str"
                           THEN Prop(json, K_title).v ELSE S_TopicAnalysis,
                 topic |-> IF Prop(json, K_topic).t = "str"
                           THEN Prop(json, K_topic).v ELSE topicArg,
                 meta |-> IF Truthy(Prop(json, K_meta))
                          THEN Prop(json, K_meta) ELSE EmptyObject,
                 sections |-> [k \in 1..Len(SECTION_IDS) |->
                                  outSection(sections, SECTION_IDS[k])]]]

\* generateConclusion after the service answered res: what the call returns
\* or throws.  parsed is kept beside the result for the claims to read.  The
\* result's meta is the normalized meta with model and generatedAt stamped
\* over it.
generateConclusion(res, topicArg, model, generatedAt) ==
    LET used == IF res.modelUsed # "" THEN res.modelUsed
                ELSE IF model # "" THEN model ELSE "unknown"
        Stamped(parsed, out) ==
            IF out.threw THEN
                [kind |-> "error", message |-> "TypeError"]
            ELSE
                [kind |-> "result", parsed |-> parsed,
                 result |-> [title |-> out.value.title, topic |-> out.value.topic,
                             meta |-> [base |-> out.value.meta, model |-> used,
                                       generatedAt |-> generatedAt],
                             sections |-> out.value.sections]]
        Normalized(parsed) ==
            IF parsed.t = "null" THEN
                [kind |-> "error", message |-> "Conclusion response was not valid JSON"]
            ELSE Stamped(parsed, normalizeConclusion(parsed, topicArg))
        Retried(raw, first) ==
            Normalized(IF first.t = "null" /\ Len(raw) > 0
                       THEN ParsedOrNull(JSONParse(fixTrailingComma(raw)))
                       ELSE first)
        Extracted(raw) == Retried(raw, extractJson(raw))
    IN  IF ~res.ok THEN
            [kind |-> "error",
             message |-> IF res.message # "" THEN res.message
                         ELSE "Conclusion generation failed"]
        ELSE Extracted(cleanRaw(res.content))

-----------------------------------------------------------------------------
(* Values of the variables a specification does not use.                   *)
ladderIdle ==
    /\ segment = NoSegment /\ context = None /\ models = NoModels
    /\ stageKey = None /\ ladder = None /\ budget = None /\ upgrade = None
contractIdle == options = None /\ contract = None
strictIdle == opts = None /\ score = None
conclIdle == response = None /\ topic = None /\ outcome = None
scanIdle ==
    /\ str = <<>> /\ pos = 0 /\ depth = 0 /\ inString = "" /\ escape = FALSE
    /\ end = -1 /\ pc = "idle" /\ returned = None

-----------------------------------------------------------------------------
(* Specification Spec: the ladder calls on one segment and context.        *)
Init ==
    /\ segment \in Segments
    /\ context \in LadderContexts
    /\ models \in ModelOverrides
    /\ stageKey = None /\ ladder = None /\ budget = None /\ upgrade = None
    /\ contractIdle /\ strictIdle /\ conclIdle /\ scanIdle

GetStageKeyForSegment ==
    /\ stageKey' = [value |-> getStageKeyForSegment(segment)]
    /\ UNCHANGED <<segment, context, models, ladder, budget, upgrade>>
    /\ UNCHANGED <<contractVars, strictVars, conclVars, scanVars>>

SelectModelAndBudget ==
    /\ ladder' = selectModelAndBudget(segment, context, models)
    /\ UNCHANGED <<segment, context, models, stageKey, budget, upgrade>>
    /\ UNCHANGED <<contractVars, strictVars, conclVars, scanVars>>

\* A caller that knows the stage and strictness of the ladder's answer asks
\* segmentBudget with the same exact-sentence flag and banlist size.
SegmentBudget ==
    /\ ladder # None
    /\ budget' = segmentBudget(ladder.stage, ladder.strictness, qualityMode(context),
                    [exact_sentence_count |-> exactSentenceCount(segment.roleSubType),
                     banlist_size |-> banlistSize(context)])
    /\ UNCHANGED <<segment, context, models, stageKey, ladder, upgrade>>
    /\ UNCHANGED <<contractVars, strictVars, conclVars, scanVars>>

\* strictness is the parameter's default, 0, or the ladder's strictness.
ShouldUpgradeImmediately ==
    /\ \E k \in {0} \cup (IF ladder # None THEN {ladder.strictness} ELSE {}) :
          upgrade' = [strictness |-> k,
                      value |-> shouldUpgradeImmediately(segment, context, k)]
    /\ UNCHANGED <<segment, context, models, stageKey, ladder, budget>>
    /\ UNCHANGED <<contractVars, strictVars, conclVars, scanVars>>

Next ==
    \/ GetStageKeyForSegment
    \/ SelectModelAndBudget
    \/ SegmentBudget
    \/ ShouldUpgradeImmediately

Spec == Init /\ [][Next]_vars

-----------------------------------------------------------------------------
(* Claims on the ladder.                                                   *)

\* C2: the two budget entry points agree: segmentBudget, asked with the
\* stage and strictness selectModelAndBudget returned and the same
\* exact-sentence flag and banlist size, returns the same max_tokens and the
\* same temperature.
C2_BudgetsAgree ==
    (ladder # None /\ budget # None) =>
        /\ budget.max_tokens = ladder.max_tokens
        /\ budget.temperature = ladder.temperature

\* The tier the table of C3 names, from the subtype, the stage and the
\* strictness the ladder returned.
C3_TableTier ==
    LET sub == segment.roleSubType
    IN  IF sub = S_judge_verdict \/ sub = S_closingChair \/ ladder.stage = "closing"
            THEN "expensive"
        ELSE IF ladder.strictness >= 8 THEN "expensive"
        ELSE IF ladder.strictness >= 5 THEN "mid"
        ELSE IF ladder.stage \in {"transition", "definition_request", "chair_procedural"}
            THEN "cheap"
        ELSE "mid"

\* C3: selectModelAndBudget returns the tier of the table: judge_verdict,
\* closingChair or stage closing give expensive whatever the strictness;
\* otherwise strictness >= 8 gives expensive, 5..7 mid, and <= 4 cheap for
\* the stages transition, definition_request, chair_procedural and mid for
\* every other stage.
C3_TierTable ==
    ladder # None => ladder.model = tierId(models, C3_TableTier)

\* A judge_verdict turn of strictness 0 got the expensive tier, a procedural
\* chair turn the cheap one.
C3_Witness ==
    /\ ladder # None
    /\ \/ /\ segment.roleSubType = S_judge_verdict
          /\ ladder.strictness = 0
          /\ ladder.model = MODEL_TIER.expensive
       \/ /\ ladder.stage = "chair_procedural"
          /\ ladder.strictness = 4
          /\ ladder.model = MODEL_TIER.cheap

C4_DistinctTiers ==
    /\ tierId(models, "cheap") # tierId(models, "mid")
    /\ tierId(models, "cheap") # tierId(models, "expensive")
    /\ tierId(models, "mid") # tierId(models, "expensive")

\* C4: with three distinct tier identifiers, shouldUpgradeImmediately asked
\* with the strictness selectModelAndBudget returned is true exactly when
\* the model selectModelAndBudget returned is the expensive tier.
C4_UpgradeIffExpensive ==
    (/\ ladder # None /\ upgrade # None
     /\ upgrade.strictness = ladder.strictness
     /\ C4_DistinctTiers) =>
        (upgrade.value <=> ladder.model = tierId(models, "expensive"))

\* Both sides of the equivalence happen: an upgrade by strictness 8 alone,
\* and by the judge_verdict override at a low strictness.
C4_Witness ==
    /\ ladder # None /\ upgrade # None /\ C4_DistinctTiers
    /\ upgrade.strictness = ladder.strictness
    /\ upgrade.value
    /\ \/ ladder.strictness >= 8 /\ ladder.stage = "interjection"
       \/ ladder.strictness < 8 /\ segment.roleSubType = S_judge_verdict

\* Whether s ends in pat.
C5_EndsWith(s, pat) ==
    /\ Len(s) >= Len(pat)
    /\ SubSeq(s, Len(s) - Len(pat) + 1, Len(s)) = pat

\* The classifier as C5 words it: the subtype's ending decides.
C5_SuffixStage ==
    LET roleType == IF segment.roleType # <<>> THEN segment.roleType ELSE S_debater
        sub == segment.roleSubType
    IN  IF roleType = S_chair THEN "chair_procedural"
        ELSE IF sub = S_interjection THEN "interjection"
        ELSE IF C5_EndsWith(sub, <<"_","s","t","a","t","e","m","e","n","t">>)
            THEN "opening_statement"
        ELSE IF C5_EndsWith(sub, <<"_","r","e","b","u","t","t","a","l">>) THEN "rebuttal"
        ELSE IF C5_EndsWith(sub, <<"_","s","u","m","m","a","r","y">>) THEN "closing"
        ELSE "rebuttal"

\* C5 as stated: the stage classifier is total and first-match-wins, a
\* subtype ending in _statement giving opening_statement, one ending in
\* _rebuttal rebuttal, one ending in _summary closing.
C5_SuffixClassifier ==
    stageKey # None => stageKey.value = C5_SuffixStage

\* C5 amended: chair gives chair_procedural whatever the subtype; else
\* interjection gives interjection; else exactly pro_statement or
\* con_statement gives opening_statement; else exactly pro_summary or
\* con_summary gives closing; every other input, a missing segment and the
\* subtypes pro_rebuttal and con_rebuttal included, gives rebuttal.
C5_ExactClassifier ==
    stageKey # None =>
        LET chair == segment.roleType = S_chair
            sub == segment.roleSubType
        IN  /\ stageKey.value \in
                 {"chair_procedural", "interjection", "opening_statement",
                  "rebuttal", "closing"}
            /\ chair => stageKey.value = "chair_procedural"
            /\ (~chair /\ sub = S_interjection) => stageKey.value = "interjection"
            /\ (~chair /\ sub \in {S_pro_statement, S_con_statement})
                  => stageKey.value = "opening_statement"
            /\ (~chair /\ sub \in {S_pro_summary, S_con_summary})
                  => stageKey.value = "closing"
            /\ (~chair /\ sub \notin {S_interjection, S_pro_statement,
                                      S_con_statement, S_pro_summary, S_con_summary})
                  => stageKey.value = "rebuttal"

\* The precedence is exercised: a chair interjection classified as
\* chair_procedural.
C5_Witness ==
    /\ stageKey # None
    /\ segment.roleType = S_chair
    /\ segment.roleSubType = S_interjection
    /\ stageKey.value = "chair_procedural"

-----------------------------------------------------------------------------
(* Specification SpecContract: buildValidatorContract on one segment,      *)
(* context and options.                                                    *)
InitContract ==
    /\ segment \in Segments
    /\ context \in ContractContexts
    /\ options \in ContractOptions
    /\ contract = None
    /\ models = NoModels
    /\ stageKey = None /\ ladder = None /\ budget = None /\ upgrade = None
    /\ strictIdle /\ conclIdle /\ scanIdle

BuildValidatorContract ==
    /\ contract' = buildValidatorContract(segment, context, options)
    /\ UNCHANGED <<ladderVars, options, strictVars, conclVars, scanVars>>

NextContract == BuildValidatorContract

SpecContract == InitContract /\ [][NextContract]_vars

\* C1 as stated: the contract has either exactSentences set and both
\* minSentences and maxSentences unset, or exactSentences unset and both
\* minSentences and maxSentences set.
C1_ExactOrRange ==
    contract # None =>
        \/ /\ contract.exactSentences.set
           /\ ~contract.minSentences.set /\ ~contract.maxSentences.set
        \/ /\ ~contract.exactSentences.set
           /\ contract.minSentences.set /\ contract.maxSentences.set

\* C1 amended: exactSentences is never set together with minSentences.
\* Either exactSentences is set, minSentences is unset and maxSentences
\* equals exactSentences, or exactSentences is unset and both minSentences
\* and maxSentences are set.
C1_ExactOrMin ==
    contract # None =>
        \/ /\ contract.exactSentences.set
           /\ ~contract.minSentences.set
           /\ contract.maxSentences = contract.exactSentences
        \/ /\ ~contract.exactSentences.set
           /\ contract.minSentences.set /\ contract.maxSentences.set

\* An interjection called with a minSentences override: the override is
\* dropped and maxSentences carries the exact count.
C1_Witness ==
    /\ contract # None
    /\ segment.roleSubType = S_interjection
    /\ options.minSentences.set
    /\ contract.exactSentences = Some(1)
    /\ contract.maxSentences = Some(1)
    /\ ~contract.minSentences.set

-----------------------------------------------------------------------------
(* Specification SpecStrictness: computeStrictness on its five signals,    *)
(* and a caller that raises one signal and scores again.                   *)
StrictnessOpts ==
    [exact_sentence_count : BOOLEAN, must_hook : BOOLEAN,
     banlist_size : {0, 19, 20, MaxBanlist},
     context_length : {"short", "medium", "long"},
     quality_mode : {"show", "final", "draft"}]

InitStrictness ==
    /\ opts \in StrictnessOpts
    /\ score = None
    /\ ladderIdle /\ contractIdle /\ conclIdle /\ scanIdle

ComputeStrictness ==
    /\ score' = [value |-> computeStrictness(opts)]
    /\ UNCHANGED <<opts, ladderVars, contractVars, conclVars, scanVars>>

\* The options with one absent signal made present.
Flipped(o) ==
    {[o EXCEPT !.exact_sentence_count = TRUE] : x \in {1} \cap
                                   (IF o.exact_sentence_count THEN {} ELSE {1})}
    \cup {[o EXCEPT !.must_hook = TRUE] : x \in {1} \cap
                                   (IF o.must_hook THEN {} ELSE {1})}
    \cup {[o EXCEPT !.banlist_size = n] : n \in
                 IF o.banlist_size >= 20 THEN {} ELSE {20, MaxBanlist}}
    \cup {[o EXCEPT !.context_length = "long"] : x \in {1} \cap
                                   (IF o.context_length = "long" THEN {} ELSE {1})}
    \cup {[o EXCEPT !.quality_mode = "final"] : x \in {1} \cap
                                   (IF o.quality_mode = "final" THEN {} ELSE {1})}

FlipSignal ==
    /\ score # None
    /\ \E o \in Flipped(opts) :
          /\ opts' = o
          /\ score' = [value |-> computeStrictness(o)]
    /\ UNCHANGED <<ladderVars, contractVars, conclVars, scanVars>>

NextStrictness == ComputeStrictness \/ FlipSignal

SpecStrictness == InitStrictness /\ [][NextStrictness]_vars

\* C9: computeStrictness returns an integer in 0..10 for every combination
\* of the five signals, and a score taken after one signal went from absent
\* to present, the other four fixed, is never below the score before.
C9_RangeAndMonotone ==
    /\ [](score # None => score.value \in 0..10)
    /\ [][(score # None /\ score' # None) => score'.value >= score.value]_vars

\* All five signals present, reached by a flip: the sum is 10, the clamp's
\* limit.
C9_Witness ==
    /\ score # None /\ score.value = 10
    /\ opts.exact_sentence_count /\ opts.must_hook /\ opts.banlist_size >= 20
    /\ opts.context_length = "long" /\ opts.quality_mode = "final"

-----------------------------------------------------------------------------
(* Specification SpecConclusion: one call of generateConclusion.  The      *)
(* service answers with a failure, or with a text: every text of up to     *)
(* MaxTextLen characters over a small alphabet, and the longer texts       *)
(* below.                                                                  *)

\* Sure:\n(BQ)(BQ)(BQ)json\n{"title":"X",}\n(BQ)(BQ)(BQ)\nbye
TextFencedProse ==
    << "S","u","r","e",":","\n","BQ","BQ","BQ","j","s","o","n","\n",
       "{","\"","t","i","t","l","e","\"",":","\"","X","\"",",","}",
       "\n","BQ","BQ","BQ","\n","b","y","e" >>

\* (BQ)(BQ)(BQ)json\n{"title":"X","topic":"Y"}\n(BQ)(BQ)(BQ)
TextFenced ==
    << "BQ","BQ","BQ","j","s","o","n","\n","{","\"","t","i","t","l",
       "e","\"",":","\"","X","\"",",","\"","t","o","p","i","c","\"",
       ":","\"","Y","\"","}","\n","BQ","BQ","BQ" >>

\* {"sections":[{"id":"media","items":[1]},{"id":"bogus"},{"id":"media","heading":"M"},{"id":"definitions","heading":"D","items":[{"text":"a"}]}],"title":1}
TextSections ==
    << "{","\"","s","e","c","t","i","o","n","s","\"",":","[","{",
       "\"","i","d","\"",":","\"","m","e","d","i","a","\"",",","\"",
       "i","t","e","m","s","\"",":","[","1","]","}",",","{","\"",
       "i","d","\"",":","\"","b","o","g","u","s","\"","}",",","{",
       "\"","i","d","\"",":","\"","m","e","d","i","a","\"",",","\"",
       "h","e","a","d","i","n","g","\"",":","\"","M","\"","}",",",
       "{","\"","i","d","\"",":","\"","d","e","f","i","n","i","t",
       "i","o","n","s","\"",",","\"","h","e","a","d","i","n","g",
       "\"",":","\"","D","\"",",","\"","i","t","e","m","s","\"",":",
       "[","{","\"","t","e","x","t","\"",":","\"","a","\"","}","]",
       "}","]",",","\"","t","i","t","l","e","\"",":","1","}" >>

\* {"title":"X","sections":[{"id":"definitions","heading":"D","items":[{"text":"a"}]}],}
TextTrailingComma ==
    << "{","\"","t","i","t","l","e","\"",":","\"","X","\"",",","\"",
       "s","e","c","t","i","o","n","s","\"",":","[","{","\"","i",
       "d","\"",":","\"","d","e","f","i","n","i","t","i","o","n",
       "s","\"",",","\"","h","e","a","d","i","n","g","\"",":","\"",
       "D","\"",",","\"","i","t","e","m","s","\"",":","[","{","\"",
       "t","e","x","t","\"",":","\"","a","\"","}","]","}","]",",",
       "}" >>

\* {"sections":[null]}
TextNullSection ==
    << "{","\"","s","e","c","t","i","o","n","s","\"",":","[","n",
       "u","l","l","]","}" >>

\* {"sections":"x","topic":"t"}
TextNotArray ==
    << "{","\"","s","e","c","t","i","o","n","s","\"",":","\"","x",
       "\"",",","\"","t","o","p","i","c","\"",":","\"","t","\"","}" >>

\* {"a":"}"} x}
TextBraceInString ==
    << "{","\"","a","\"",":","\"","}","\"","}"," ","x","}" >>

\* [1,]
TextArray ==
    << "[","1",",","]" >>

\* no json here
TextProse ==
    << "n","o"," ","j","s","o","n"," ","h","e","r","e" >>

ConclusionAlphabet == {"{", "}", ",", "\"", "1", "a"}

ShortTexts == UNION {[1..n -> ConclusionAlphabet] : n \in 0..MaxTextLen}

LongTexts ==
    {TextFencedProse, TextFenced, TextSections, TextTrailingComma,
     TextNullSection, TextNotArray, TextBraceInString, TextArray, TextProse}

Responses ==
    [ok : {TRUE}, content : ShortTexts \cup LongTexts, message : {""},
     modelUsed : {"", "anthropic/claude-opus-4"}]
    \cup [ok : {FALSE}, content : {<<>>}, message : {"", "rate limited"},
          modelUsed : {""}]

Topics == {<<"A", "I">>, <<"U", "B", "I">>}

InitConclusion ==
    /\ topic \in Topics
    /\ response = None
    /\ outcome = None
    /\ ladderIdle /\ contractIdle /\ strictIdle /\ scanIdle

\* The awaited call of the service returns.
FetchOpenRouter ==
    /\ response = None
    /\ response' \in Responses
    /\ UNCHANGED <<topic, outcome, ladderVars, contractVars, strictVars, scanVars>>

\* The rest of generateConclusion: it returns a result or throws.
GenerateConclusion ==
    /\ response # None
    /\ outcome = None
    /\ outcome' = generateConclusion(response, topic, "", "now")
    /\ UNCHANGED <<topic, response, ladderVars, contractVars, strictVars, scanVars>>

NextConclusion == FetchOpenRouter \/ GenerateConclusion

SpecConclusion == InitConclusion /\ [][NextConclusion]_vars

C6_Ids ==
    << <<"d","e","f","i","n","i","t","i","o","n","s">>,
       <<"a","r","g","u","m","e","n","t","_","m","a","p">>,
       <<"c","o","r","e","_","c","l","a","s","h","e","s">>,
       <<"a","s","s","u","m","p","t","i","o","n","s">>,
       <<"s","t","e","e","l","m","a","n">>,
       <<"n","o","v","e","l","_","a","n","g","l","e","s">>,
       <<"e","m","p","i","r","i","c","a","l">>,
       <<"v","e","r","d","i","c","t">>,
       <<"l","i","t","e","r","a","t","u","r","e">>,
       <<"m","e","d","i","a">> >>

C6_Headings ==
    << <<"D","e","f","i","n","i","t","i","o","n","s">>,
       <<"A","r","g","u","m","e","n","t"," ","M","a","p">>,
       <<"C","o","r","e"," ","C","l","a","s","h","e","s">>,
       <<"A","s","s","u","m","p","t","i","o","n","s">>,
       <<"S","t","e","e","l","m","a","n">>,
       <<"N","o","v","e","l"," ","A","n","g","l","e","s">>,
       <<"E","m","p","i","r","i","c","a","l">>,
       <<"V","e","r","d","i","c","t">>,
       <<"L","i","t","e","r","a","t","u","r","e">>,
       <<"M","e","d","i","a">> >>

\* Whether the parsed response holds no section of id number k.
C6_Absent(k) ==
    LET secs == Prop(outcome.parsed, K_sections)
    IN  \/ secs.t # "arr"
        \/ \A j \in 1..Len(secs.v) : Prop(secs.v[j], K_id) # JsonStr(C6_Ids[k])

\* C6: whenever generateConclusion returns a result, its sections are ten
\* entries whose ids are, in this order, definitions, argument_map,
\* core_clashes, assumptions, steelman, novel_angles, empirical, verdict,
\* literature, media, whatever sections the parsed response held; a section
\* absent from the response has no items and its humanized id as heading.
C6_TenSections ==
    (outcome # None /\ outcome.kind = "result") =>
        /\ Len(outcome.result.sections) = 10
        /\ \A k \in 1..10 :
              /\ outcome.result.sections[k].id = C6_Ids[k]
              /\ C6_Absent(k) =>
                    /\ outcome.result.sections[k].items = <<>>
                    /\ outcome.result.sections[k].heading = JsonStr(C6_Headings[k])

\* A response whose sections are reordered, renamed and duplicated was
\* normalized: media, given twice and first, is section 10 with the last
\* copy's heading; definitions, given last, is section 1 with its item.
C6_Witness ==
    /\ outcome # None
    /\ outcome.kind = "result"
    /\ response.content = TextSections
    /\ outcome.result.sections[10].heading = JsonStr(<<"M">>)
    /\ Len(outcome.result.sections[1].items) = 1
    /\ C6_Absent(2)

\* C7 as stated: a response with no title, or a title that is not a
\* string, gives the result the supplied topic as title; likewise for the
\* topic.
C7_TitleFromTopic ==
    (outcome # None /\ outcome.kind = "result") =>
        /\ Prop(outcome.parsed, K_title).t # "str" => outcome.result.title = topic
        /\ Prop(outcome.parsed, K_topic).t # "str" => outcome.result.topic = topic

\* C7 amended: the result's title is the response's title when that is a
\* string and the fixed string "Topic Analysis" otherwise; the result's
\* topic is the response's topic when that is a string and the supplied
\* topic otherwise.
C7_Fallbacks ==
    (outcome # None /\ outcome.kind = "result") =>
        /\ outcome.result.title =
              IF Prop(outcome.parsed, K_title).t = "str"
              THEN Prop(outcome.parsed, K_title).v
              ELSE <<"T","o","p","i","c"," ","A","n","a","l","y","s","i","s">>
        /\ outcome.result.topic =
              IF Prop(outcome.parsed, K_topic).t = "str"
              THEN Prop(outcome.parsed, K_topic).v
              ELSE topic

\* A response whose title is the number 1 and that has no topic: both
\* fallbacks were taken.
C7_Witness ==
    /\ outcome # None
    /\ outcome.kind = "result"
    /\ response.content = TextSections
    /\ Prop(outcome.parsed, K_title).t = "num"
    /\ Prop(outcome.parsed, K_topic).t = "undefined"
    /\ outcome.result.topic = topic

\* C8: generateConclusion returns a result only when a JSON object was
\* parsed out of the service's text; in particular a text with no { in it
\* makes the call fail.
C8_ResultOnlyFromObject ==
    (outcome # None /\ outcome.kind = "result") =>
        /\ outcome.parsed.t = "obj"
        /\ Contains(response.content, <<"{">>)

-----------------------------------------------------------------------------
(* Specification SpecScan: extractJson on one text, its loop one           *)
(* character a step.  pos is the loop's i.                                 *)
ScanAlphabet == {"{", "}", "\"", "'", "\\", "a"}

ScanTexts == UNION {[1..n -> ScanAlphabet] : n \in 0..MaxScanLen}

InitScan ==
    /\ str \in ScanTexts
    /\ pc = "start"
    /\ pos = 0 /\ depth = 0 /\ inString = "" /\ escape = FALSE /\ end = -1
    /\ returned = None
    /\ ladderIdle /\ contractIdle /\ strictIdle /\ conclIdle

\* The direct JSON.parse of the trimmed text, and the search of the first {.
DirectParse ==
    /\ pc = "start"
    /\ LET Scan(s, start) ==
               IF start = -1 THEN
                   /\ returned' = JsonNull /\ pc' = "done"
                   /\ UNCHANGED <<str, pos>>
               ELSE
                   /\ str' = s /\ pos' = start /\ pc' = "scan"
                   /\ UNCHANGED returned
           Direct(s, direct) ==
               IF direct.ok THEN
                   /\ returned' = direct.val /\ pc' = "done"
                   /\ UNCHANGED <<str, pos>>
               ELSE Scan(s, IndexOf(s, "{"))
           Trimmed(s) == Direct(s, JSONParse(s))
       IN  Trimmed(Trim(str))
    /\ UNCHANGED <<depth, inString, escape, end>>
    /\ UNCHANGED <<ladderVars, contractVars, strictVars, conclVars>>

\* One turn of the loop.
ScanStep ==
    /\ pc = "scan" /\ end = -1 /\ pos < Len(str)
    /\ LET sc == ScanChar([i |-> pos, depth |-> depth, inString |-> inString,
                           escape |-> escape, end |-> end], str[pos + 1])
       IN  /\ pos' = sc.i /\ depth' = sc.depth /\ inString' = sc.inString
           /\ escape' = sc.escape /\ end' = sc.end
    /\ UNCHANGED <<str, pc, returned>>
    /\ UNCHANGED <<ladderVars, contractVars, strictVars, conclVars>>

\* After the loop: null without a closing brace, else the parse of the
\* slice, null if that throws.
ParseSlice ==
    /\ pc = "scan" /\ (end # -1 \/ pos >= Len(str))
    /\ returned' =
          IF end = -1 THEN JsonNull
          ELSE ParsedOrNull(JSONParse(SubSeq(str, IndexOf(str, "{") + 1, end + 1)))
    /\ pc' = "done"
    /\ UNCHANGED <<str, pos, depth, inString, escape, end>>
    /\ UNCHANGED <<ladderVars, contractVars, strictVars, conclVars>>

NextScan == DirectParse \/ ScanStep \/ ParseSlice

SpecScan == InitScan /\ [][NextScan]_vars

\* String literals as the claim reads them, by position (1-based) from the
\* first { on.  The quote at q closes the literal opened at p when it is the
\* same character and an even number of backslashes of the literal stands
\* right before it.
RECURSIVE C10_BackslashRun(_, _, _)
C10_BackslashRun(s, p, q) ==
    IF q - 1 > p /\ s[q - 1] = "\\" THEN 1 + C10_BackslashRun(s, p, q - 1) ELSE 0

C10_Closes(s, p, q) ==
    /\ s[q] = s[p]
    /\ C10_BackslashRun(s, p, q) % 2 = 0

\* Whether position k lies in a literal: after a quote that opens one, up to
\* and with the quote that closes it.
RECURSIVE C10_InLiteral(_, _)
C10_InLiteral(s, k) ==
    \E p \in (IndexOf(s, "{") + 1)..(k - 1) :
        /\ s[p] \in {"\"", "'"}
        /\ ~C10_InLiteral(s, p)
        /\ \A q \in (p + 1)..(k - 1) : ~C10_Closes(s, p, q)

C10_Braces(s, k, c) ==
    Cardinality({j \in (IndexOf(s, "{") + 1)..k : s[j] = c /\ ~C10_InLiteral(s, j)})

\* The closing braces after the first {, outside literals, at which as many } as { have been
\* seen since the first {.
C10_Balanced(s) ==
    {k \in (IndexOf(s, "{") + 1)..Len(s) :
        /\ s[k] = "}" /\ ~C10_InLiteral(s, k)
        /\ C10_Braces(s, k, "{") = C10_Braces(s, k, "}")}

\* The 0-based index of the } that closes the first {, or -1.
C10_ClosingBrace(s) ==
    IF C10_Balanced(s) = {} THEN -1
    ELSE (CHOOSE k \in C10_Balanced(s) : \A j \in C10_Balanced(s) : k <= j) - 1

\* C10: on a text whose direct parse failed, the scan stops at the } that
\* closes the first {, counting only braces outside string literals, and
\* yields no object when there is none; inside a string, and right after a
\* backslash inside a string, no character changes the depth; a string is
\* closed only by the quote character that opened it, not escaped.
C10_Scanner ==
    /\ []((pc = "done" /\ ~JSONParse(str).ok /\ IndexOf(str, "{") # -1) =>
            /\ end = C10_ClosingBrace(str)
            /\ end = -1 => returned = JsonNull)
    /\ [][/\ (inString # "" \/ escape) => depth' = depth
          /\ escape => inString' = inString
          /\ (inString # "" /\ inString' = "") =>
                (~escape /\ str[pos + 1] = inString)]_vars

\* The scan of {"}"} passed the } inside the string at depth 1 and stopped
\* at the last character.
C10_Witness ==
    /\ pc = "done"
    /\ str = <<"{", "\"", "}", "\"", "}">>
    /\ end = 4
    /\ depth = 0

=============================================================================
